---- MODULE Spec2Model ----
(***************************************************************************)
(* Joystick / RGB LED / OLED controller for the Raspberry Pi Pico          *)
(* (src/AtividadeADC.c and its narrow-limit twin src/unnamed/part_000).    *)
(*                                                                         *)
(* The model has the interrupt handler gpio_callback, which debounces two  *)
(* buttons against the 32-bit microsecond counter, and the main loop,      *)
(* which samples the joystick, drives two PWM channels, computes the       *)
(* marker position and composes a frame.  The handler pre-empts the loop   *)
(* between any two of its steps.                                           *)
(*                                                                         *)
(* Time is kept in two limbs, value = hi * 2^16 + lo, so that the 32-bit   *)
(* truncation of time_us_32 and the unsigned subtraction of the handler    *)
(* are computed with their width.                                          *)
(***************************************************************************)
EXTENDS Integers, Sequences, FiniteSets, TLC

\* ---------------------------------------------------------------- constants
JOYSTICK_CENTER == 2048
ADC_MAX == 4095
PWM_MAX == 65535
SW_PIN == 22
BUTTON_A_PIN == 5
LED_R_PIN == 13
LED_G_PIN == 11
LED_B_PIN == 12
WIDTH == 128
HEIGHT == 64
DEADZONE == 150
PWM_SCALE == 32
DEBOUNCE_US == 200000
OFFSET_X == 60
OFFSET_Y == 28
MARKER_SIZE == 8

\* the two builds of the program: wide limits (AtividadeADC.c) and narrow
\* limits (part_000)
Variants == {"wide", "narrow"}
LIMIT_X(v) == IF v = "wide" THEN 114 ELSE 52
LIMIT_Y(v) == IF v = "wide" THEN 50 ELSE 24

\* ------------------------------------------------------------------- bounds
\* number of edge events (accepted or discarded) in one behaviour
MaxEvents == 4

\* number of edge events when the handler is followed alone
MaxPresses == 6

\* number of edge events beside the fairly scheduled loop
MaxTickEvents == 3

\* ------------------------------------------------------- machine arithmetic
Limb == 2^16

Abs(x) == IF x < 0 THEN -x ELSE x
Min(a, b) == IF a < b THEN a ELSE b

\* conversion of an int to uint16_t
ToUint16(x) == x % Limb

\* C integer division, truncating toward zero
CDiv(a, b) == IF a >= 0 THEN a \div b ELSE -((-a) \div b)

\* a time value hi * 2^16 + lo
Time(hi, lo) == [hi |-> hi, lo |-> lo]
TimeOfInt(n) == Time(n \div Limb, n % Limb)

\* the 64-bit microsecond clock plus a delta
TimeAdd(a, b) ==
    LET s == a.lo + b.lo
    IN  Time(a.hi + b.hi + (s \div Limb), s % Limb)

\* a - b on the unbounded clock (a >= b)
TimeSub(a, b) ==
    LET borrow == IF a.lo < b.lo THEN 1 ELSE 0
    IN  Time(a.hi - b.hi - borrow, (a.lo - b.lo) % Limb)

TimeGt(a, b) == a.hi > b.hi \/ (a.hi = b.hi /\ a.lo > b.lo)
TimeLeq(a, b) == ~TimeGt(a, b)

\* time_us_32: the low 32 bits of the microsecond clock
time_us_32(t) == Time(t.hi % Limb, t.lo)

\* uint32_t subtraction a - b, modulo 2^32
Sub32(a, b) ==
    LET borrow == IF a.lo < b.lo THEN 1 ELSE 0
    IN  Time((a.hi - b.hi - borrow) % Limb, (a.lo - b.lo) % Limb)

\* ---------------------------------------------------------- pure functions
\* the test of the handler: interrupt_time - last_interrupt_time > 200000
DebouncePassed_ge(interrupt_time, last) ==
    ~TimeGt(TimeOfInt(DEBOUNCE_US), Sub32(interrupt_time, last))

DebouncePassed(interrupt_time, last) ==
    TimeGt(Sub32(interrupt_time, last), TimeOfInt(DEBOUNCE_US))

\* border_style = (border_style + 1) % 3
NextBorderStyle_mod4(style) == (style + 1) % 4

NextBorderStyle_nomod(style) == style + 1

NextBorderStyle(style) == (style + 1) % 3

\* The handler's branches work on a record of the mode state: the globals
\* led_green_state, pwm_enabled, border_style, the level of LED_G_PIN, and
\* the set of output pins written during the invocation.

\* if (gpio == SW_PIN): flip the green LED, put it on the pin, next border
SwPressed_stale_pin(s) ==
    [s EXCEPT !.led_green_state = ~s.led_green_state,
              !.led_g_pin = s.led_green_state,
              !.border_style = NextBorderStyle(s.border_style),
              !.writes = s.writes \cup {LED_G_PIN}]

SwPressed_keeps_led(s) ==
    [s EXCEPT !.led_g_pin = s.led_green_state,
              !.border_style = NextBorderStyle(s.border_style),
              !.writes = s.writes \cup {LED_G_PIN}]

SwPressed(s) ==
    [s EXCEPT !.led_green_state = ~s.led_green_state,
              !.led_g_pin = ~s.led_green_state,
              !.border_style = NextBorderStyle(s.border_style),
              !.writes = s.writes \cup {LED_G_PIN}]

\* else if (gpio == BUTTON_A_PIN): flip pwm_enabled
ButtonAPressed_led(s) ==
    [s EXCEPT !.pwm_enabled = ~s.pwm_enabled,
              !.led_green_state = ~s.led_green_state,
              !.led_g_pin = ~s.led_green_state,
              !.writes = s.writes \cup {LED_G_PIN}]

ButtonAPressed(s) == [s EXCEPT !.pwm_enabled = ~s.pwm_enabled]

\* red_pwm / blue_pwm of the main loop: a uint16_t, 0 inside the dead zone
PwmLevel_ge(raw) ==
    IF Abs(raw - JOYSTICK_CENTER) >= DEADZONE
      THEN ToUint16(Abs(raw - JOYSTICK_CENTER) * PWM_SCALE)
      ELSE 0

PwmLevel(raw) ==
    IF Abs(raw - JOYSTICK_CENTER) > DEADZONE
      THEN ToUint16(Abs(raw - JOYSTICK_CENTER) * PWM_SCALE)
      ELSE 0

\* the level set_pwm_duty hands to pwm_set_gpio_level
set_pwm_duty_ungated(enabled, duty) == duty

set_pwm_duty(enabled, duty) == IF enabled THEN duty ELSE 0

\* square_x = 60 + ((vry_value - JOYSTICK_CENTER) * limit) / ADC_MAX
SquareX_halfrange(v, vry) ==
    OFFSET_X + CDiv((vry - JOYSTICK_CENTER) * LIMIT_X(v), JOYSTICK_CENTER)

SquareX_minus(v, vry) ==
    OFFSET_X - CDiv((vry - JOYSTICK_CENTER) * LIMIT_X(v), ADC_MAX)

SquareX(v, vry) ==
    OFFSET_X + CDiv((vry - JOYSTICK_CENTER) * LIMIT_X(v), ADC_MAX)

\* square_y = 28 - ((vrx_value - JOYSTICK_CENTER) * limit) / ADC_MAX
SquareY(v, vrx) ==
    OFFSET_Y - CDiv((vrx - JOYSTICK_CENTER) * LIMIT_Y(v), ADC_MAX)

\* the calls draw_border makes on the display library
Rect(top, left, w, h, fill) ==
    [op |-> "rect", a |-> top, b |-> left, c |-> w, d |-> h, fill |-> fill]
HLine(x0, x1, y) ==
    [op |-> "hline", a |-> x0, b |-> x1, c |-> y, d |-> 0, fill |-> FALSE]
VLine(x, y0, y1) ==
    [op |-> "vline", a |-> x, b |-> y0, c |-> y1, d |-> 0, fill |-> FALSE]

draw_border(style) ==
    CASE style = 0 -> << Rect(0, 0, WIDTH, HEIGHT, FALSE) >>
      [] style = 1 -> << Rect(0, 0, WIDTH, HEIGHT, FALSE),
                         Rect(2, 2, WIDTH - 4, HEIGHT - 4, FALSE) >>
      [] style = 2 -> << HLine(0, 10, 0),
                         HLine(WIDTH - 10, WIDTH - 1, 0),
                         HLine(0, 10, HEIGHT - 1),
                         HLine(WIDTH - 10, WIDTH - 1, HEIGHT - 1),
                         VLine(0, 0, 10),
                         VLine(0, HEIGHT - 10, HEIGHT - 1),
                         VLine(WIDTH - 1, 0, 10),
                         VLine(WIDTH - 1, HEIGHT - 10, HEIGHT - 1) >>
      [] OTHER -> << >>

\* the pixels a line call covers, its two end arguments taken as inclusive
\* pixel coordinates
SegmentPixels(call) ==
    IF call.op = "hline" THEN call.b - call.a + 1 ELSE call.c - call.b + 1

\* -------------------------------------------------------------------- state
VARIABLES
    variant,              \* which build runs
    led_green_state,      \* bool led_green_state
    pwm_enabled,          \* bool pwm_enabled
    border_style,         \* uint8_t border_style
    last_interrupt_time,  \* static uint32_t of gpio_callback
    led_g_pin,            \* level on LED_G_PIN
    pwm_level,            \* level on the PWM channels of LED_R_PIN, LED_B_PIN
    square_x, square_y,   \* int square_x, square_y
    vrx_value, vry_value, \* locals of the loop body
    red_pwm, blue_pwm,    \* locals of the loop body
    frame,                \* the frame buffer ssd.ram_buffer, as draw calls
    display,              \* what ssd1306_send_data has sent last
    pc,                   \* position of main in its loop
    now,                  \* the microsecond clock at the last edge event
    events,               \* log of the edge events, oldest first
    tick_events           \* history, kept by SpecTick alone: the length of
                          \* the log when the pass in progress began

vars == << variant, led_green_state, pwm_enabled, border_style,
           last_interrupt_time, led_g_pin, pwm_level, square_x, square_y,
           vrx_value, vry_value, red_pwm, blue_pwm, frame, display, pc,
           now, events, tick_events >>

mode_vars == << led_green_state, pwm_enabled, border_style,
                last_interrupt_time, led_g_pin >>
loop_locals == << vrx_value, vry_value, red_pwm, blue_pwm >>
loop_outputs == << pwm_level, square_x, square_y, frame, display >>
clock_vars == << now, events, tick_events >>

\* -------------------------------------------------------------- environment
\* time between two edge events: half the window (two of them end exactly
\* on its edge), just past the window, and a long idle span that takes the
\* 32-bit counter around
EventGaps ==
    { TimeOfInt(DEBOUNCE_US \div 2), TimeOfInt(DEBOUNCE_US + 1),
      TimeSub(Time(Limb, 0), TimeOfInt(DEBOUNCE_US \div 2)) }

Buttons == {SW_PIN, BUTTON_A_PIN}

\* joystick readings of the loop when it runs beside the buttons
LoopSamples == { <<4095, 1000>> }

\* joystick readings for the mapping: every value of one axis against the
\* centre and the two ends of the other
AxisRange == 0 .. ADC_MAX
AxisEnds == {0, JOYSTICK_CENTER, ADC_MAX}
MapSamples == (AxisRange \X AxisEnds) \cup (AxisEnds \X AxisRange)

\* ------------------------------------------------------------------ startup
\* the globals as initialised, the peripherals as main leaves them before the
\* loop: PWM levels 0, indicator low, display cleared
Boot ==
    /\ variant \in Variants
    /\ led_green_state = FALSE
    /\ pwm_enabled = TRUE
    /\ border_style = 0
    /\ last_interrupt_time = Time(0, 0)
    /\ led_g_pin = FALSE
    /\ pwm_level = [p \in {LED_R_PIN, LED_B_PIN} |-> 0]
    /\ square_x = OFFSET_X
    /\ square_y = OFFSET_Y
    /\ red_pwm = 0
    /\ blue_pwm = 0
    /\ frame = << >>
    /\ display = << >>
    /\ now = Time(0, 0)
    /\ events = << >>
    /\ tick_events = 0

Init ==
    /\ Boot
    /\ vrx_value = 0
    /\ vry_value = 0
    /\ pc = "read_adc"

\* ------------------------------------------------------- interrupt handler
CurrentMode ==
    [led_green_state |-> led_green_state, pwm_enabled |-> pwm_enabled,
     border_style |-> border_style, led_g_pin |-> led_g_pin, writes |-> {}]

\* gpio_callback(gpio, events) at the clock value now + gap
gpio_callback(gpio, gap) ==
    LET t == TimeAdd(now, gap)
        interrupt_time == time_us_32(t)
        accepted == DebouncePassed(interrupt_time, last_interrupt_time)
        s == CurrentMode
        r == IF ~accepted THEN s
             ELSE IF gpio = SW_PIN THEN SwPressed(s)
             ELSE IF gpio = BUTTON_A_PIN THEN ButtonAPressed(s)
             ELSE s
    IN  /\ now' = t
        /\ led_green_state' = r.led_green_state
        /\ pwm_enabled' = r.pwm_enabled
        /\ border_style' = r.border_style
        /\ led_g_pin' = r.led_g_pin
        /\ last_interrupt_time' =
               IF accepted THEN interrupt_time ELSE last_interrupt_time
        /\ events' = Append(events,
               [gpio |-> gpio, t |-> t, accepted |-> accepted,
                before |-> s, after |-> r])
        /\ UNCHANGED << variant, pc, loop_locals, loop_outputs, tick_events >>

EdgeEvent ==
    /\ Len(events) < MaxEvents
    /\ \E gpio \in Buttons, gap \in EventGaps : gpio_callback(gpio, gap)

\* ---------------------------------------------------------------- main loop
\* adc_select_input(0); vrx_value = adc_read(); adc_select_input(1); ...
ReadJoystick(samples) ==
    /\ pc = "read_adc"
    /\ \E s \in samples : vrx_value' = s[1] /\ vry_value' = s[2]
    /\ pc' = "compute_pwm"
    /\ UNCHANGED << variant, mode_vars, red_pwm, blue_pwm, loop_outputs,
                    now, events >>

\* red_pwm, blue_pwm
ComputePwm ==
    /\ pc = "compute_pwm"
    /\ blue_pwm' = PwmLevel(vrx_value)
    /\ red_pwm' = PwmLevel(vry_value)
    /\ pc' = "set_red"
    /\ UNCHANGED << variant, mode_vars, vrx_value, vry_value, loop_outputs,
                    clock_vars >>

\* set_pwm_duty(LED_R_PIN, red_pwm)
SetRed ==
    /\ pc = "set_red"
    /\ pwm_level' =
           [pwm_level EXCEPT ![LED_R_PIN] = set_pwm_duty(pwm_enabled, red_pwm)]
    /\ pc' = "set_blue"
    /\ UNCHANGED << variant, mode_vars, loop_locals, square_x, square_y,
                    frame, display, clock_vars >>

\* set_pwm_duty(LED_B_PIN, blue_pwm)
SetBlue ==
    /\ pc = "set_blue"
    /\ pwm_level' =
           [pwm_level EXCEPT ![LED_B_PIN] = set_pwm_duty(pwm_enabled, blue_pwm)]
    /\ pc' = "compute_pos"
    /\ UNCHANGED << variant, mode_vars, loop_locals, square_x, square_y,
                    frame, display, clock_vars >>

\* square_x = ...; square_y = ...
ComputePosition ==
    /\ pc = "compute_pos"
    /\ square_x' = SquareX(variant, vry_value)
    /\ square_y' = SquareY(variant, vrx_value)
    /\ pc' = "draw"
    /\ UNCHANGED << variant, mode_vars, loop_locals, pwm_level, frame,
                    display, clock_vars >>

\* ssd1306_fill(false); ssd1306_rect(square_y, square_x, 8, 8, true, true);
\* draw_border(border_style)
DrawFrame ==
    /\ pc = "draw"
    /\ frame' = << Rect(square_y, square_x, MARKER_SIZE, MARKER_SIZE, TRUE) >>
                   \o draw_border(border_style)
    /\ pc' = "send"
    /\ UNCHANGED << variant, mode_vars, loop_locals, pwm_level, square_x,
                    square_y, display, clock_vars >>

\* ssd1306_send_data
SendFrame_not_sent ==
    /\ pc = "send"
    /\ pc' = "sleep"
    /\ UNCHANGED << variant, mode_vars, loop_locals, loop_outputs,
                    clock_vars >>

SendFrame ==
    /\ pc = "send"
    /\ display' = frame
    /\ pc' = "sleep"
    /\ UNCHANGED << variant, mode_vars, loop_locals, pwm_level, square_x,
                    square_y, frame, clock_vars >>

\* sleep_ms(20), and the end of the loop body: its locals go out of scope
Sleep_resets_style ==
    /\ pc = "sleep"
    /\ vrx_value' = 0
    /\ vry_value' = 0
    /\ red_pwm' = 0
    /\ blue_pwm' = 0
    /\ border_style' = 0
    /\ pc' = "read_adc"
    /\ UNCHANGED << variant, led_green_state, pwm_enabled,
                    last_interrupt_time, led_g_pin, loop_outputs, clock_vars >>

Sleep ==
    /\ pc = "sleep"
    /\ vrx_value' = 0
    /\ vry_value' = 0
    /\ red_pwm' = 0
    /\ blue_pwm' = 0
    /\ pc' = "read_adc"
    /\ UNCHANGED << variant, mode_vars, loop_outputs, clock_vars >>

LoopRead == ReadJoystick(LoopSamples) /\ UNCHANGED tick_events

Next ==
    \/ EdgeEvent
    \/ LoopRead
    \/ ComputePwm
    \/ SetRed
    \/ SetBlue
    \/ ComputePosition
    \/ DrawFrame
    \/ SendFrame
    \/ Sleep

Spec == Init /\ [][Next]_vars

\* ------------------------------------------------ one pass of the loop body
\* The loop body over the whole range of the joystick.  It starts where the
\* two readings have just been taken, either after boot or after one
\* accepted press of button A (pwm_enabled false), and runs one pass.
ButtonAEntry ==
    [gpio |-> BUTTON_A_PIN, t |-> TimeOfInt(DEBOUNCE_US + 1), accepted |-> TRUE,
     before |-> [led_green_state |-> FALSE, pwm_enabled |-> TRUE,
                 border_style |-> 0, led_g_pin |-> FALSE, writes |-> {}],
     after |-> [led_green_state |-> FALSE, pwm_enabled |-> FALSE,
                border_style |-> 0, led_g_pin |-> FALSE, writes |-> {}]]

InitMap ==
    /\ variant \in Variants
    /\ led_green_state = FALSE
    /\ pwm_enabled \in BOOLEAN
    /\ border_style = 0
    /\ led_g_pin = FALSE
    /\ events = IF pwm_enabled THEN << >> ELSE << ButtonAEntry >>
    /\ now = IF pwm_enabled THEN Time(0, 0) ELSE ButtonAEntry.t
    /\ last_interrupt_time = time_us_32(now)
    /\ tick_events = Len(events)
    /\ pwm_level = [p \in {LED_R_PIN, LED_B_PIN} |-> 0]
    /\ square_x = OFFSET_X
    /\ square_y = OFFSET_Y
    /\ red_pwm = 0
    /\ blue_pwm = 0
    /\ frame = << >>
    /\ display = << >>
    /\ \E s \in MapSamples : vrx_value = s[1] /\ vry_value = s[2]
    /\ pc = "compute_pwm"

NextMap ==
    \/ ComputePwm
    \/ SetRed
    \/ SetBlue
    \/ ComputePosition
    \/ DrawFrame
    \/ SendFrame
    \/ Sleep

SpecMap == InitMap /\ [][NextMap]_vars

\* ------------------------------------------------------- the handler alone
\* The handler over a longer run of edges, the loop standing still: the loop
\* writes none of the variables the handler reads.
PressEvent ==
    /\ Len(events) < MaxPresses
    /\ \E gpio \in Buttons, gap \in EventGaps : gpio_callback(gpio, gap)

NextPresses == PressEvent

SpecPresses == Init /\ [][NextPresses]_vars

\* ------------------------------------------- the loop under fair scheduling
\* main is a while (true) loop on a core that runs whenever no handler does
\* and the handler returns after a bounded number of instructions, so the
\* loop always takes its next step: weak fairness on the steps of the loop.
\* Each pass notes in tick_events how many edges the log held when it read
\* the joystick.  The edges come half a window or just over a window after
\* the one before, which gives discarded and accepted edges on both inputs.
TickGaps == { TimeOfInt(DEBOUNCE_US \div 2), TimeOfInt(DEBOUNCE_US + 1) }

TickEdgeEvent ==
    /\ Len(events) < MaxTickEvents
    /\ \E gpio \in Buttons, gap \in TickGaps : gpio_callback(gpio, gap)

TickRead == ReadJoystick(LoopSamples) /\ tick_events' = Len(events)

LoopStep ==
    \/ TickRead
    \/ ComputePwm
    \/ SetRed
    \/ SetBlue
    \/ ComputePosition
    \/ DrawFrame
    \/ SendFrame
    \/ Sleep

NextTick ==
    \/ TickEdgeEvent
    \/ LoopStep

SpecTick == Init /\ [][NextTick]_vars /\ WF_vars(LoopStep)

\* ------------------------------------------------------------------ claims
\* positions of the loop at which both PWM channels have been driven, and at
\* which the marker position has been computed, in the current pass
AfterDrive == {"compute_pos", "draw", "send", "sleep"}
AfterPosition == {"draw", "send", "sleep"}

Deflection(raw) == Abs(raw - JOYSTICK_CENTER)

\* C1: outside the dead zone and with pwm_enabled true, the level driven on
\* an axis's channel is min(|r - 2048| * 32, 65535), for every r in 0..4095,
\* r = 0 included.
C1_DutyIsClampedProduct ==
    (pc \in AfterDrive /\ pwm_enabled) =>
        /\ Deflection(vrx_value) > DEADZONE =>
               pwm_level[LED_B_PIN] =
                   Min(Deflection(vrx_value) * PWM_SCALE, PWM_MAX)
        /\ Deflection(vry_value) > DEADZONE =>
               pwm_level[LED_R_PIN] =
                   Min(Deflection(vry_value) * PWM_SCALE, PWM_MAX)

\* C5: inside the dead zone (|r - 2048| <= 150, the ends 1898 and 2198
\* included) the level computed and driven for the axis is 0, whatever
\* pwm_enabled and the other axis are.
C5_DeadzoneIsZero ==
    /\ (pc \notin {"read_adc", "compute_pwm"}) =>
           /\ Deflection(vrx_value) <= DEADZONE => blue_pwm = 0
           /\ Deflection(vry_value) <= DEADZONE => red_pwm = 0
    /\ (pc \in AfterDrive) =>
           /\ Deflection(vrx_value) <= DEADZONE => pwm_level[LED_B_PIN] = 0
           /\ Deflection(vry_value) <= DEADZONE => pwm_level[LED_R_PIN] = 0

\* the lower end of the dead zone on the horizontal axis, driven with PWM
\* enabled while the other axis is at its far end and lights its LED
C5_Witness ==
    /\ pc = "compute_pos"
    /\ pwm_enabled
    /\ vrx_value = JOYSTICK_CENTER - DEADZONE
    /\ vry_value = ADC_MAX
    /\ pwm_level[LED_B_PIN] = 0
    /\ pwm_level[LED_R_PIN] > 0

\* C6: a step that drives a PWM channel while pwm_enabled is false writes
\* level 0 to that channel, whatever the raw values are.
C6_DisabledWritesZero ==
    [][/\ (pc = "set_red" /\ pc' = "set_blue" /\ ~pwm_enabled) =>
              pwm_level'[LED_R_PIN] = 0
       /\ (pc = "set_blue" /\ pc' = "compute_pos" /\ ~pwm_enabled) =>
              pwm_level'[LED_B_PIN] = 0]_vars

\* both channels driven with the flag false and non-zero duties computed
C6_Witness ==
    /\ pc = "compute_pos"
    /\ ~pwm_enabled
    /\ red_pwm > 0
    /\ blue_pwm > 0
    /\ pwm_level[LED_R_PIN] = 0
    /\ pwm_level[LED_B_PIN] = 0

\* C8: the 8x8 marker drawn at (square_x, square_y) lies inside the 128x64
\* display, for every raw sample and both builds.
MarkerInside(top, left) ==
    /\ 0 <= left
    /\ left + MARKER_SIZE <= WIDTH
    /\ 0 <= top
    /\ top + MARKER_SIZE <= HEIGHT

C8_MarkerInsideDisplay ==
    /\ MarkerInside(square_y, square_x)
    /\ (frame # << >>) => MarkerInside(frame[1].a, frame[1].b)

\* the marker drawn for the lowest vertical reading, in the wide build: the
\* position closest to the left edge
C8_Witness ==
    /\ pc = "send"
    /\ variant = "wide"
    /\ vry_value = 0
    /\ vrx_value = 0
    /\ square_x = 3
    /\ square_y = 53
    /\ frame[1].a = square_y
    /\ frame[1].b = square_x

\* C9: square_x does not decrease as vry grows and square_y does not
\* increase as vrx grows, over 0..4095, and at 2048 the coordinate is the
\* offset (60, 28), in both builds.  Each computed coordinate is compared
\* with the one of the reading just below and with those of the two ends,
\* which over the whole range is monotonicity.
C9_MonotonicAndCentred ==
    (pc \in AfterPosition) =>
        /\ vry_value > 0 => SquareX(variant, vry_value - 1) <= square_x
        /\ SquareX(variant, 0) <= square_x
        /\ square_x <= SquareX(variant, ADC_MAX)
        /\ vrx_value > 0 => SquareY(variant, vrx_value - 1) >= square_y
        /\ SquareY(variant, 0) >= square_y
        /\ square_y >= SquareY(variant, ADC_MAX)
        /\ vry_value = JOYSTICK_CENTER => square_x = OFFSET_X
        /\ vrx_value = JOYSTICK_CENTER => square_y = OFFSET_Y

\* the centre sample: the marker is computed at the offsets
C9_Witness ==
    /\ pc = "draw"
    /\ vrx_value = JOYSTICK_CENTER
    /\ vry_value = JOYSTICK_CENTER
    /\ square_x = OFFSET_X
    /\ square_y = OFFSET_Y

\* ---------------------------------------------------- claims on the handler
Debounce == TimeOfInt(DEBOUNCE_US)

\* the accepted events of the log, oldest first
IsAccepted(e) == e.accepted
Accepted == SelectSeq(events, IsAccepted)
HasAccepted == Accepted # << >>

\* clock value of the last accepted edge; before any edge is accepted this
\* is 0, the value last_interrupt_time starts with
LastAcceptedTime ==
    IF HasAccepted THEN Accepted[Len(Accepted)].t ELSE Time(0, 0)

\* this step is one invocation of the handler; its log entry
IsEdgeStep == Len(events') = Len(events) + 1
NewEntry == events'[Len(events')]

\* time from the last accepted edge to the edge of this step
Elapsed == TimeSub(now', LastAcceptedTime)

\* C2: an edge on either input at most 200000 us after the last accepted
\* edge (of either input) is discarded: led_green_state, border_style,
\* pwm_enabled, the timestamp and the indicator pin keep their values and
\* the handler writes no output.
C2_EdgeInWindowDiscarded ==
    [][(IsEdgeStep /\ TimeLeq(Elapsed, Debounce)) =>
           /\ ~NewEntry.accepted
           /\ NewEntry.after.writes = {}
           /\ UNCHANGED << led_green_state, border_style, pwm_enabled,
                           last_interrupt_time, led_g_pin >>]_vars

\* after an accepted edge on the joystick button, an edge on button A
\* inside the window and an edge on the joystick button exactly 200000 us
\* after the accepted one were both discarded
C2_Witness ==
    \E i \in 1 .. Len(events) - 2 :
        /\ events[i].accepted
        /\ events[i].gpio = SW_PIN
        /\ events[i + 1].gpio = BUTTON_A_PIN
        /\ ~events[i + 1].accepted
        /\ events[i + 1].after = events[i + 1].before
        /\ events[i + 2].gpio = SW_PIN
        /\ TimeSub(events[i + 2].t, events[i].t) = Debounce
        /\ ~events[i + 2].accepted
        /\ events[i + 2].after = events[i + 2].before
        /\ border_style = events[i].after.border_style
        /\ pwm_enabled = events[i].after.pwm_enabled
        /\ last_interrupt_time = time_us_32(events[i].t)

\* C3: every edge 200001 us or more after the last accepted edge is
\* accepted (timestamp updated, effect applied), however many edges were
\* discarded in between and however long the span, wraps of the 32-bit
\* counter included.
C3_EdgeOutsideWindowAccepted ==
    [][(IsEdgeStep /\ HasAccepted /\ TimeGt(Elapsed, Debounce)) =>
           /\ NewEntry.accepted
           /\ last_interrupt_time' = time_us_32(now')
           /\ NewEntry.gpio = SW_PIN => border_style' # border_style
           /\ NewEntry.gpio = BUTTON_A_PIN => pwm_enabled' # pwm_enabled]_vars

\* C4: from startup, two edges on the joystick button at t1 < t2 with
\* t2 - t1 <= 200000 and no other edge: only the first is applied, so
\* border_style ends at 1.
C4_FirstOfTwoApplied ==
    (/\ Len(events) = 2
     /\ events[1].gpio = SW_PIN
     /\ events[2].gpio = SW_PIN
     /\ TimeGt(events[2].t, events[1].t)
     /\ TimeLeq(TimeSub(events[2].t, events[1].t), Debounce)) =>
        border_style = 1

\* C7: each accepted edge on the joystick button flips led_green_state and
\* sets border_style to (border_style + 1) mod 3; three of them in a row,
\* with any discarded edges or accepted button-A edges between, bring
\* border_style back to the value before the first.
IsAcceptedSw(e) == e.accepted /\ e.gpio = SW_PIN
AcceptedSw == SelectSeq(events, IsAcceptedSw)

C7_ModeToggleCycle ==
    LET sw == AcceptedSw
        n == Len(sw)
    IN  /\ \A k \in 1 .. n :
              /\ sw[k].after.led_green_state = ~sw[k].before.led_green_state
              /\ sw[k].after.border_style = (sw[k].before.border_style + 1) % 3
        /\ \A k \in 1 .. n - 2 :
              sw[k + 2].after.border_style = sw[k].before.border_style
        /\ n > 0 =>
              /\ border_style = sw[n].after.border_style
              /\ led_green_state = sw[n].after.led_green_state

\* three accepted joystick-button edges with an accepted button-A edge
\* between the first and the last of them
C7_Witness ==
    /\ Len(AcceptedSw) = 3
    /\ Len(events) = 4
    /\ \E i \in 2 .. 3 : events[i].accepted /\ events[i].gpio = BUTTON_A_PIN
    /\ events[1].before.border_style = 0
    /\ border_style = 0
    /\ led_green_state

\* C10: an accepted edge on button A inverts pwm_enabled, leaves
\* led_green_state, border_style and the indicator pin alone and writes no
\* PWM level; an accepted edge on the joystick button leaves pwm_enabled
\* alone.
C10_ButtonEffectsSeparate ==
    [][(IsEdgeStep /\ NewEntry.accepted) =>
           /\ NewEntry.gpio = BUTTON_A_PIN =>
                  /\ pwm_enabled' = ~pwm_enabled
                  /\ UNCHANGED << led_green_state, border_style, led_g_pin,
                                  pwm_level >>
                  /\ NewEntry.after.writes = {}
           /\ NewEntry.gpio = SW_PIN =>
                  /\ pwm_enabled' = pwm_enabled
                  /\ LED_R_PIN \notin NewEntry.after.writes
                  /\ LED_B_PIN \notin NewEntry.after.writes]_vars

\* button A accepted while the green LED is on and a PWM level is non-zero,
\* and the joystick button accepted while PWM is disabled
C10_Witness ==
    /\ \E i \in 1 .. Len(events) :
          /\ events[i].accepted
          /\ events[i].gpio = BUTTON_A_PIN
          /\ events[i].before.led_green_state
          /\ events[i].after.led_green_state
          /\ events[i].before.pwm_enabled
          /\ ~events[i].after.pwm_enabled
    /\ \E i \in 1 .. Len(events) :
          /\ events[i].accepted
          /\ events[i].gpio = SW_PIN
          /\ ~events[i].before.pwm_enabled
          /\ ~events[i].after.pwm_enabled
    /\ pwm_level[LED_B_PIN] > 0

\* ------------------------------------------- claims on the loop and handler
StartupMode ==
    /\ pwm_enabled = TRUE
    /\ led_green_state = FALSE
    /\ border_style = 0

\* C11: no step of the main loop changes led_green_state, pwm_enabled,
\* border_style or the last-accepted timestamp: they change only in an
\* accepted edge event, so while no edge has been accepted the mode is the
\* startup default (PWM enabled, indicator off, style 0).
C11_ModeChangesOnlyOnAcceptedEdge ==
    [][/\ ~(IsEdgeStep /\ NewEntry.accepted) =>
              UNCHANGED << led_green_state, pwm_enabled, border_style,
                           last_interrupt_time >>
       /\ ~HasAccepted => StartupMode
       /\ (~IsEdgeStep \/ ~NewEntry.accepted) /\ ~HasAccepted => StartupMode'
      ]_vars

\* a whole pass of the loop has run and edges were discarded, none accepted,
\* and the mode is still the startup default
C11_Witness ==
    /\ display # << >>
    /\ pc = "sleep"
    /\ Len(events) >= 2
    /\ ~HasAccepted
    /\ StartupMode
    /\ last_interrupt_time = Time(0, 0)

\* C12: in one pass of the loop the red and the blue channel are gated by
\* the same value of pwm_enabled: with both computed duties non-zero it
\* never happens that one channel was driven to 0 and the other to its
\* computed level, also when an accepted button-A edge falls between the
\* two set_pwm_duty calls.
C12_BothChannelsSameGate ==
    (pc \in AfterDrive /\ red_pwm > 0 /\ blue_pwm > 0) =>
        \/ pwm_level[LED_R_PIN] = 0 /\ pwm_level[LED_B_PIN] = 0
        \/ pwm_level[LED_R_PIN] = red_pwm /\ pwm_level[LED_B_PIN] = blue_pwm

\* C13: the last-accepted timestamp never decreases: each accepted edge
\* stores a value greater than or equal to the one stored before.
C13_TimestampNonDecreasing ==
    [][TimeLeq(last_interrupt_time, last_interrupt_time')]_vars

\* C14: outside the handler the level on LED_G_PIN equals led_green_state,
\* from startup (pin low, boolean false) and after every accepted or
\* discarded edge on either input.
C14_IndicatorFollowsState == led_g_pin = led_green_state

\* the indicator is on after an accepted joystick-button edge, and stayed on
\* over a discarded edge and an accepted button-A edge
C14_Witness ==
    /\ led_green_state
    /\ led_g_pin
    /\ \E i \in 1 .. Len(events) :
          ~events[i].accepted /\ events[i].before.led_green_state
    /\ \E i \in 1 .. Len(events) :
          /\ events[i].accepted
          /\ events[i].gpio = BUTTON_A_PIN
          /\ events[i].before.led_green_state

\* the draw calls of a frame after the marker: its border
BorderOf(f) == SubSeq(f, 2, Len(f))

IsLine(call) == call.op \in {"hline", "vline"}

C17_CornerSegmentsTenPixels ==
    \A i \in 1 .. Len(frame) :
        IsLine(frame[i]) => SegmentPixels(frame[i]) = 10

\* C18: led_green_state and border_style move together: with n the number
\* of joystick-button edges accepted since startup, led_green_state is
\* (n mod 2 = 1) and border_style is n mod 3, so the pair is back at its
\* startup value (false, 0) after every 6 accepted edges and not before.
C18_LedAndStyleCountPresses ==
    LET n == Len(AcceptedSw)
    IN  /\ led_green_state = (n % 2 = 1)
        /\ border_style = n % 3
        /\ (~led_green_state /\ border_style = 0) <=> (n % 6 = 0)

\* six accepted joystick-button edges: the pair is back at (false, 0)
C18_Witness ==
    /\ Len(AcceptedSw) = 6
    /\ ~led_green_state
    /\ border_style = 0
    /\ AcceptedSw[3].after.border_style = 0
    /\ AcceptedSw[3].after.led_green_state

\* C15: under fair scheduling of the loop, once an accepted button-A edge
\* has set pwm_enabled false both channels are at 0 by the end of the next
\* complete pass, and every later PWM write is 0 until an accepted button-A
\* edge sets the flag again; likewise the border of the frame sent by the
\* next complete pass is the one of the changed border_style.  A pass is
\* complete when it has sent its frame (pc = "sleep"); the edges accepted
\* since it read the joystick are those logged after tick_events.
AcceptedSince(gpio) ==
    \E i \in tick_events + 1 .. Len(events) :
        events[i].accepted /\ events[i].gpio = gpio

BothChannelsOff == pwm_level[LED_R_PIN] = 0 /\ pwm_level[LED_B_PIN] = 0

PassShowsMode ==
    (pc = "sleep") =>
        /\ (~pwm_enabled /\ ~AcceptedSince(BUTTON_A_PIN)) => BothChannelsOff
        /\ ~AcceptedSince(SW_PIN) =>
               BorderOf(display) = draw_border(border_style)

WritesStayOff ==
    ~pwm_enabled =>
        \A p \in {LED_R_PIN, LED_B_PIN} :
            pwm_level'[p] = pwm_level[p] \/ pwm_level'[p] = 0

C15_ModeVisibleWithinOnePass ==
    /\ []PassShowsMode
    /\ [][WritesStayOff]_vars
    /\ (pc = "read_adc") ~> (pc = "sleep")
    /\ (~pwm_enabled) ~> (pwm_enabled \/ BothChannelsOff)
    /\ \A style \in {0, 1, 2} :
           (border_style = style) ~>
               (border_style # style \/
                BorderOf(display) = draw_border(style))

\* a pass that began after button A had switched PWM off and the joystick
\* button had changed the style, earlier passes having lit both LEDs: it
\* ends with both channels at 0 and the new border on the display
C15_Witness ==
    /\ pc = "sleep"
    /\ ~pwm_enabled
    /\ ~AcceptedSince(BUTTON_A_PIN)
    /\ ~AcceptedSince(SW_PIN)
    /\ tick_events >= 2
    /\ red_pwm > 0
    /\ blue_pwm > 0
    /\ BothChannelsOff
    /\ border_style = 1
    /\ BorderOf(display) = draw_border(1)

====
